---- MODULE Spec2Model ----
(***************************************************************************)
(* Coding-Guru: REST layer over users / projects / API endpoints           *)
(* (server/routes.ts, server/storage.ts, server/db.ts) and the            *)
(* build-from-prompt form of the client.                                   *)
(*                                                                         *)
(* Tables are sets of rows.  A request body is a record whose fields are   *)
(* all present in the model; the value Absent stands for a key the body    *)
(* does not carry and Invalid for a value of the wrong type.               *)
(* "const [row] = await db.select()..." is modelled by the set of matching *)
(* rows: the empty set is JavaScript's undefined.                          *)
(***************************************************************************)
EXTENDS Integers, Sequences, FiniteSets, TLC

\* ------------------------------------------------------------------ bounds
MaxClock == 1
MaxProjects == 2
MaxEndpoints == 1
MaxListedEndpoints == 3
MaxAnswers == 2
MaxNodes == 3
MaxEdges == 1
MaxInFlight == 2

\* ------------------------------------------------------------- value sets
Users == {"u1", "u2"}
Titles == {"t1", "t2"}
Paths == {"/a"}
Emails == {"e1", "e2"}
Absent == "<absent>"
Invalid == "<invalid>"

\* what the prompt textarea holds: a sequence of characters
Prompts == {<<>>, <<" ">>, <<"s">>, <<" ", "s">>}
UserDatas == [id : Users, email : Emails \cup {Absent}]

ProjectIds == 1..MaxProjects
\* the ids requests name: an id not handed out yet is an id of no row
RequestProjectIds == ProjectIds
EndpointIds == 1..MaxEndpoints

\* a body may carry a userId of its own: that of u2, whoever sends it
ProjectBodies == [title : Titles \cup {Absent, Invalid}, userId : {Absent, "u2"}]
EndpointBodies == [path : Paths \cup {Absent}, projectId : ProjectIds \cup {0}]

VARIABLES
    env,            \* process.env: DATABASE_URL set?, NODE_ENV
    db,             \* server/db.ts export: "connected", "null" or "unloaded"
    app,            \* the express app: the routes registered on it
    now,            \* the value new Date() returns
    users,          \* table users
    projects,       \* table projects
    endpoints,      \* table api_endpoints
    nextProjectId,  \* the id default of the next projects row
    nextEndpointId, \* the id default of the next api_endpoints row
    last,           \* the last request served and its response
    form,           \* BuildFromPromptForm: prompt, mutation state, query cache
    gen,            \* the generateBackendCode call in flight and its three AI calls
    reqs,           \* handlers suspended at their await of the project lookup
    canvas          \* dashboard: nodes, edges, selectedComponent

vars == <<env, db, app, now, users, projects, endpoints, nextProjectId, nextEndpointId, last, form,
          gen, reqs, canvas>>

Envs == [databaseUrl : BOOLEAN, nodeEnv : {"development", "production"}, geminiApiKey : BOOLEAN]

\* ------------------------------------------------------------ server/db.ts
\* The module either throws while loading or exports db.
dbModule(e) ==
    IF ~e.databaseUrl
    THEN IF e.nodeEnv = "production"
         THEN [threw |-> "DATABASE_URL must be set", db |-> "unloaded"]
         ELSE [threw |-> "", db |-> "null"]
    ELSE [threw |-> "", db |-> "connected"]

\* A query on the exported db: db.select() on null is a TypeError.
dbThrows == db # "connected"

\* ---------------------------------------------------------- storage: users
\* getUser: select ... where id = id
getUser(rows, id) == {r \in rows : r.id = id}

\* insert ... on conflict (id) do nothing
upsertUserDoNothing(rows, userData, t) ==
    LET conflict == {r \in rows : r.id = userData.id}
        row == [id |-> userData.id, email |-> userData.email, createdAt |-> t, updatedAt |-> t]
    IN IF conflict = {} THEN [rows |-> rows \cup {row}, returned |-> {row}]
       ELSE [rows |-> rows, returned |-> conflict]

\* upsertUser: insert ... values(userData) on conflict (id) do update set
\* {...userData, updatedAt: new Date()} returning.  A key userData does not
\* carry is left out of the set list; on insert its column is null (Absent).
upsertUser(rows, userData, t) ==
    LET conflict == {r \in rows : r.id = userData.id}
        row == [id |-> userData.id, email |-> userData.email, createdAt |-> t, updatedAt |-> t]
        new == {[id |-> userData.id,
                 email |-> IF userData.email = Absent THEN r.email ELSE userData.email,
                 createdAt |-> r.createdAt,
                 updatedAt |-> t] : r \in conflict}
    IN IF conflict = {} THEN [rows |-> rows \cup {row}, returned |-> {row}]
       ELSE [rows |-> (rows \ conflict) \cup new, returned |-> new]

\* ------------------------------------------------------- storage: projects
\* getProject: select ... where id = id
getProject(rows, id) == {r \in rows : r.id = id}

\* getUserProjects: where userId = userId order by updatedAt desc.  SQL leaves
\* the order of rows with equal keys open: every ordering consistent with the
\* sort is a possible result.
SeqsOf(rows) ==
    {s \in [1..Cardinality(rows) -> rows] : \A i, j \in DOMAIN s : i # j => s[i] # s[j]}

\* getUserProjects without its where clause
getUserProjectsUnfiltered(rows, userId) ==
    {s \in SeqsOf(rows) : \A i, j \in DOMAIN s : i < j => s[i].updatedAt >= s[j].updatedAt}

getUserProjects(rows, userId) ==
    LET mine == {r \in rows : r.userId = userId}
    IN {s \in SeqsOf(mine) : \A i, j \in DOMAIN s : i < j => s[i].updatedAt >= s[j].updatedAt}

\* createProject: insert ... values(project) returning; id and updatedAt take
\* their column defaults.
createProject(rows, project, id, t) ==
    LET row == [id |-> id, userId |-> project.userId, title |-> project.title, updatedAt |-> t]
    IN [rows |-> rows \cup {row}, returned |-> {row}]

\* .set({...updates}) with no updatedAt
applyProjectUpdatesKeepStamp(r, updates, t) ==
    [id |-> r.id,
     userId |-> IF updates.userId = Absent THEN r.userId ELSE updates.userId,
     title |-> IF updates.title = Absent THEN r.title ELSE updates.title,
     updatedAt |-> r.updatedAt]

\* .set({...updates, updatedAt: new Date()}): a key the updates do not carry
\* keeps its column.
applyProjectUpdates(r, updates, t) ==
    [id |-> r.id,
     userId |-> IF updates.userId = Absent THEN r.userId ELSE updates.userId,
     title |-> IF updates.title = Absent THEN r.title ELSE updates.title,
     updatedAt |-> t]

\* updateProject: update ... set ... where id = id returning
updateProject(rows, id, updates, t) ==
    LET hit == {r \in rows : r.id = id}
        new == {applyProjectUpdates(r, updates, t) : r \in hit}
    IN [rows |-> (rows \ hit) \cup new, returned |-> new]

\* deleteProject: delete from projects where id = id.  The statement names the
\* projects table alone.
deleteProject(rows, id) == {r \in rows : r.id # id}

\* ------------------------------------------------------ storage: endpoints
getProjectEndpoints(rows, projectId) ==
    LET mine == {r \in rows : r.projectId = projectId}
    IN {s \in SeqsOf(mine) : \A i, j \in DOMAIN s : i < j => s[i].createdAt >= s[j].createdAt}

createApiEndpoint(rows, endpoint, id, t) ==
    LET row == [id |-> id, projectId |-> endpoint.projectId, path |-> endpoint.path,
                createdAt |-> t, updatedAt |-> t]
    IN [rows |-> rows \cup {row}, returned |-> {row}]

applyEndpointUpdates(r, updates, t) ==
    [id |-> r.id,
     projectId |-> IF updates.projectId = 0 THEN r.projectId ELSE updates.projectId,
     path |-> IF updates.path = Absent THEN r.path ELSE updates.path,
     createdAt |-> r.createdAt,
     updatedAt |-> t]

updateApiEndpoint(rows, id, updates, t) ==
    LET hit == {r \in rows : r.id = id}
        new == {applyEndpointUpdates(r, updates, t) : r \in hit}
    IN [rows |-> (rows \ hit) \cup new, returned |-> new]

deleteApiEndpoint(rows, id) == {r \in rows : r.id # id}

\* ----------------------------------------------------------- shared/schema
\* insertProjectSchema.parse: title and userId are required strings.  TRUE
\* when parse throws a ZodError.
insertProjectSchemaFails(data) ==
    data.title \notin Titles \/ data.userId \notin Users

\* insertProjectSchema.partial().parse: every key optional, a key that is
\* present must still be valid.
insertProjectSchemaPartialFails(data) ==
    data.title \notin Titles \cup {Absent} \/ data.userId \notin Users \cup {Absent}

\* What deleting a projects row does to the api_endpoints rows that refer to
\* it: nothing, the tables carry no consistency logic of their own.
apiEndpointsOnProjectDelete(rows, id) == rows

\* insertApiEndpointSchema.parse: path is a required string, projectId required.
insertApiEndpointSchemaFails(data) ==
    data.path \notin Paths \/ data.projectId = 0

\* --------------------------------------------------------- server/routes.ts
\* What a handler did: the response (status, message, result rows), the tables
\* it leaves and the storage methods it called, in order.
Resp(status, message, result, P, E, ops) ==
    [status |-> status, message |-> message, result |-> result,
     projects |-> P, endpoints |-> E, ops |-> ops]

NoBody == [none |-> TRUE]

\* projectGuard without its ownership test
projectGuardNoOwnerTest(project, userId) ==
    IF project = {} THEN 404 ELSE 0

\* projectGuard with the ownership test made before the existence test
projectGuardOwnerFirst(project, userId) ==
    IF \A p \in project : p.userId # userId THEN 403
    ELSE IF project = {} THEN 404
    ELSE 0

\* The guard every project-scoped handler starts with: 404 when the lookup
\* found nothing, 403 when the row is another user's, 0 to go on.
projectGuard(project, userId) ==
    IF project = {} THEN 404
    ELSE IF (CHOOSE p \in project : TRUE).userId # userId THEN 403
    ELSE 0

GuardResp(g, ops) ==
    Resp(g, IF g = 404 THEN "Project not found" ELSE "Access denied", <<>>,
         projects, endpoints, ops)

\* {userId, ...req.body}: a userId of the body wins
withUserIdBodyWins(body, userId) ==
    IF body.userId = Absent THEN [body EXCEPT !.userId = userId] ELSE body

\* {...req.body, userId}
withUserId(body, userId) == [body EXCEPT !.userId = userId]

\* {projectId: req.params.projectId, ...req.body}: a projectId of the body wins
withProjectIdBodyWins(body, projectId) ==
    IF body.projectId = 0 THEN [body EXCEPT !.projectId = projectId] ELSE body

\* {...req.body, projectId: req.params.projectId}
withProjectId(body, projectId) == [body EXCEPT !.projectId = projectId]

\* GET /api/auth/user
RouteGetAuthUser(userId) ==
    IF dbThrows
    THEN {Resp(500, "Failed to fetch user", <<>>, projects, endpoints, <<"getUser">>)}
    ELSE LET user == getUser(users, userId)
         IN {Resp(200, "", IF user = {} THEN <<>> ELSE <<CHOOSE r \in user : TRUE>>,
                  projects, endpoints, <<"getUser">>)}

\* GET /api/projects
RouteGetProjects(userId) ==
    IF dbThrows
    THEN {Resp(500, "Failed to fetch projects", <<>>, projects, endpoints, <<"getUserProjects">>)}
    ELSE {Resp(200, "", s, projects, endpoints, <<"getUserProjects">>) :
            s \in getUserProjects(projects, userId)}

\* GET /api/projects/:id
RouteGetProject(userId, id) ==
    IF dbThrows
    THEN {Resp(500, "Failed to fetch project", <<>>, projects, endpoints, <<"getProject">>)}
    ELSE LET project == getProject(projects, id)
             g == projectGuard(project, userId)
         IN IF g # 0 THEN {GuardResp(g, <<"getProject">>)}
            ELSE {Resp(200, "", <<CHOOSE p \in project : TRUE>>, projects, endpoints,
                       <<"getProject">>)}

\* POST /api/projects
RoutePostProject(userId, body, t) ==
    LET projectData == withUserId(body, userId)
    IN IF insertProjectSchemaFails(projectData)
       THEN {Resp(400, "Invalid project data", <<>>, projects, endpoints, <<>>)}
       ELSE IF dbThrows
       THEN {Resp(500, "Failed to create project", <<>>, projects, endpoints, <<"createProject">>)}
       ELSE LET c == createProject(projects, projectData, nextProjectId, t)
            IN {Resp(201, "", <<CHOOSE p \in c.returned : TRUE>>, c.rows, endpoints,
                     <<"createProject">>)}

\* PUT /api/projects/:id with the update issued before the body is parsed
RoutePutProjectWriteFirst(userId, id, body, t) ==
    IF dbThrows
    THEN {Resp(500, "Failed to update project", <<>>, projects, endpoints, <<"getProject">>)}
    ELSE LET project == getProject(projects, id)
             g == IF project = {} THEN 404
                  ELSE IF (CHOOSE p \in project : TRUE).userId # userId THEN 403 ELSE 0
             u == updateProject(projects, id, body, t)
         IN IF g # 0 THEN {Resp(g, "", <<>>, projects, endpoints, <<"getProject">>)}
            ELSE IF insertProjectSchemaPartialFails(body)
            THEN {Resp(400, "Invalid project data", <<>>, u.rows, endpoints,
                       <<"getProject", "updateProject">>)}
            ELSE {Resp(200, "", <<CHOOSE p \in u.returned : TRUE>>, u.rows, endpoints,
                       <<"getProject", "updateProject">>)}

\* const [row] = await ...returning(): the first row, or undefined
firstRow(returned) == IF returned = {} THEN <<>> ELSE <<CHOOSE r \in returned : TRUE>>

\* PUT /api/projects/:id from the point where `await storage.getProject`
\* has given `project`: the guard, the parse, the update on the table as it is
\* now, and res.json(updatedProject).
PutProjectAfterLookup(project, userId, id, body, t) ==
    LET g == projectGuard(project, userId)
    IN IF g # 0 THEN {GuardResp(g, <<"getProject">>)}
       ELSE IF insertProjectSchemaPartialFails(body)
       THEN {Resp(400, "Invalid project data", <<>>, projects, endpoints, <<"getProject">>)}
       ELSE LET u == updateProject(projects, id, body, t)
            IN {Resp(200, "", firstRow(u.returned), u.rows, endpoints,
                     <<"getProject", "updateProject">>)}

\* PUT /api/projects/:id
RoutePutProject(userId, id, body, t) ==
    IF dbThrows
    THEN {Resp(500, "Failed to update project", <<>>, projects, endpoints, <<"getProject">>)}
    ELSE PutProjectAfterLookup(getProject(projects, id), userId, id, body, t)

\* DELETE /api/projects/:id without the lookup and its guard
RouteDeleteProjectNoLookup(userId, id) ==
    IF dbThrows
    THEN {Resp(500, "Failed to delete project", <<>>, projects, endpoints, <<"deleteProject">>)}
    ELSE {Resp(204, "", <<>>, deleteProject(projects, id), endpoints, <<"deleteProject">>)}

\* DELETE /api/projects/:id from the point where `await storage.getProject`
\* has given `project`.
DeleteProjectAfterLookup(project, userId, id) ==
    LET g == projectGuard(project, userId)
    IN IF g # 0 THEN {GuardResp(g, <<"getProject">>)}
       ELSE {Resp(204, "", <<>>, deleteProject(projects, id),
                  apiEndpointsOnProjectDelete(endpoints, id),
                  <<"getProject", "deleteProject">>)}

\* DELETE /api/projects/:id
RouteDeleteProject(userId, id) ==
    IF dbThrows
    THEN {Resp(500, "Failed to delete project", <<>>, projects, endpoints, <<"getProject">>)}
    ELSE DeleteProjectAfterLookup(getProject(projects, id), userId, id)

\* GET /api/projects/:projectId/endpoints
RouteGetEndpoints(userId, projectId) ==
    IF dbThrows
    THEN {Resp(500, "Failed to fetch endpoints", <<>>, projects, endpoints, <<"getProject">>)}
    ELSE LET project == getProject(projects, projectId)
             g == projectGuard(project, userId)
         IN IF g # 0 THEN {GuardResp(g, <<"getProject">>)}
            ELSE {Resp(200, "", s, projects, endpoints, <<"getProject", "getProjectEndpoints">>) :
                    s \in getProjectEndpoints(endpoints, projectId)}

\* POST /api/projects/:projectId/endpoints from the point where
\* `await storage.getProject` has given `project`.
PostEndpointAfterLookup(project, userId, projectId, body, t) ==
    LET g == projectGuard(project, userId)
        endpointData == withProjectId(body, projectId)
    IN IF g # 0 THEN {GuardResp(g, <<"getProject">>)}
       ELSE IF insertApiEndpointSchemaFails(endpointData)
       THEN {Resp(400, "Invalid endpoint data", <<>>, projects, endpoints, <<"getProject">>)}
       ELSE LET c == createApiEndpoint(endpoints, endpointData, nextEndpointId, t)
            IN {Resp(201, "", firstRow(c.returned), projects, c.rows,
                     <<"getProject", "createApiEndpoint">>)}

\* POST /api/projects/:projectId/endpoints
RoutePostEndpoint(userId, projectId, body, t) ==
    IF dbThrows
    THEN {Resp(500, "Failed to create endpoint", <<>>, projects, endpoints, <<"getProject">>)}
    ELSE PostEndpointAfterLookup(getProject(projects, projectId), userId, projectId, body, t)

\* The routes registerRoutes registers, each with the storage and AI facade
\* functions its handler calls.
registeredRoutes ==
    {[name |-> "GET /api/auth/user", calls |-> {"getUser"}],
     [name |-> "GET /api/projects", calls |-> {"getUserProjects"}],
     [name |-> "GET /api/projects/:id", calls |-> {"getProject"}],
     [name |-> "POST /api/projects", calls |-> {"createProject"}],
     [name |-> "PUT /api/projects/:id", calls |-> {"getProject", "updateProject"}],
     [name |-> "DELETE /api/projects/:id", calls |-> {"getProject", "deleteProject"}],
     [name |-> "GET /api/projects/:projectId/endpoints",
      calls |-> {"getProject", "getProjectEndpoints"}],
     [name |-> "POST /api/projects/:projectId/endpoints",
      calls |-> {"getProject", "createApiEndpoint"}],
     [name |-> "POST /api/ai/generate-component", calls |-> {"generateReactComponent"}],
     [name |-> "POST /api/ai/generate-backend", calls |-> {"generateBackendCode"}]}

\* express: the routes a request matches
dispatch(name) == {r \in app : r.name = name}

\* interface IStorage: the create, read, update and delete methods per entity
IStorageCrud ==
    [project |-> [create |-> {"createProject"}, read |-> {"getUserProjects", "getProject"},
                  update |-> {"updateProject"}, delete |-> {"deleteProject"}],
     endpoint |-> [create |-> {"createApiEndpoint"}, read |-> {"getProjectEndpoints"},
                   update |-> {"updateApiEndpoint"}, delete |-> {"deleteApiEndpoint"}]]

\* ------------------------------------------------------------------- state
NoRequest ==
    [kind |-> "none", user |-> "", id |-> 0, body |-> NoBody,
     status |-> 0, message |-> "", result |-> <<>>, ops |-> <<>>,
     preProjects |-> {}, preEndpoints |-> {}]

\* No generateBackendCode call in flight.
GenIdle == [body |-> NoBody, settled |-> <<>>, order |-> <<>>, responded |-> TRUE]

\* ------------------------------------------- client: pages/dashboard.tsx
\* ids of componentPalette items
Palette == {"hero", "button"}

\* Math.random() * 400 + 100, for both coordinates
Positions == {100, 499}

\* `${component.id}-${Date.now()}`: the palette ids hold no "-", the two
\* parts can be read back from the string
nodeId(component, t) == [component |-> component, time |-> t]

\* selectedComponent = null
NullId == [component |-> "null", time |-> 0]

\* {nodes.length === 0 && (...)}: the build-from-prompt overlay is rendered
overlayShown(nodes) == Len(nodes) = 0

\* What the page shows after a state change, with the last handler that ran
\* and the nodes and edges it found.
render(nodes, edges, selectedComponent, op, c) ==
    [nodes |-> nodes, edges |-> edges, selectedComponent |-> selectedComponent,
     overlay |-> overlayShown(nodes), op |-> op,
     preNodes |-> c.nodes, preEdges |-> c.edges]

\* useNodesState([]), useEdgesState([]), useState<string | null>(null)
CanvasEmpty ==
    [nodes |-> <<>>, edges |-> {}, selectedComponent |-> NullId, overlay |-> TRUE,
     op |-> "mount", preNodes |-> <<>>, preEdges |-> {}]

\* handleComponentDrop putting the new node in front
handleComponentDropInFront(c, component, t, x, y) ==
    LET newNode == [id |-> nodeId(component, t), x |-> x, y |-> y]
    IN render(<<newNode>> \o c.nodes, c.edges, newNode.id, "drop", c)

\* handleComponentDrop: setNodes(nds => nds.concat(newNode)) and
\* setSelectedComponent(newNode.id)
handleComponentDrop(c, component, t, x, y) ==
    LET newNode == [id |-> nodeId(component, t), x |-> x, y |-> y]
    IN render(Append(c.nodes, newNode), c.edges, newNode.id, "drop", c)

\* onConnect: addEdge adds the connection unless the edge is there already
onConnect(c, source, target) ==
    render(c.nodes, c.edges \cup {[source |-> source, target |-> target]},
           c.selectedComponent, "connect", c)

\* onNodesChange / onEdgesChange with the removal of the node at index i:
\* what has its id goes, and the edges attached to that id with it
removeNode(c, i) ==
    LET gone == c.nodes[i].id
        kept(n) == n.id # gone
    IN render(SelectSeq(c.nodes, kept),
              {e \in c.edges : e.source # gone /\ e.target # gone},
              c.selectedComponent, "remove", c)


\* The state once the process has loaded its modules under environment e.
InitIn(E) ==
    /\ env \in E
    /\ db = dbModule(env).db
    /\ app = IF dbModule(env).threw = "" THEN registeredRoutes ELSE {}
    /\ now = 0
    /\ users = {}
    /\ projects = {}
    /\ endpoints = {}
    /\ nextProjectId = 1
    /\ nextEndpointId = 1
    /\ last = NoRequest
    /\ form = [prompt |-> <<>>, sent |-> <<>>, status |-> "idle", toast |-> "",
               invalidated |-> FALSE]
    /\ gen = GenIdle
    /\ reqs = {}
    /\ canvas = CanvasEmpty

\* The project, endpoint and user routes never import ./gemini: for them the
\* environment is taken with GEMINI_API_KEY set.
Init == InitIn({e \in Envs : e.geminiApiKey})

\* For the AI routes GEMINI_API_KEY is set or not.
AiInit == InitIn(Envs)

\* The server listens only when no module threw while loading.
serverUp == dbModule(env).threw = ""

\* One request served: the tables the handler leaves, and the record of it.
Serve(kind, userId, id, body, r) ==
    /\ serverUp
    /\ dispatch(kind) # {}
    /\ projects' = r.projects
    /\ endpoints' = r.endpoints
    /\ last' = [kind |-> kind, user |-> userId, id |-> id, body |-> body,
                status |-> r.status, message |-> r.message, result |-> r.result,
                ops |-> r.ops, preProjects |-> projects, preEndpoints |-> endpoints]

\* new Date() moves on
Tick ==
    /\ now < MaxClock
    /\ now' = now + 1
    /\ UNCHANGED <<gen, reqs, canvas, env, db, app, users, projects, endpoints, nextProjectId, nextEndpointId, last, form>>

GetProjects ==
    \E u \in Users : \E r \in RouteGetProjects(u) :
        /\ Serve("GET /api/projects", u, 0, NoBody, r)
        /\ UNCHANGED <<gen, reqs, canvas, env, db, app, now, users, nextProjectId, nextEndpointId, form>>

GetProject ==
    \E u \in Users, id \in RequestProjectIds : \E r \in RouteGetProject(u, id) :
        /\ Serve("GET /api/projects/:id", u, id, NoBody, r)
        /\ UNCHANGED <<gen, reqs, canvas, env, db, app, now, users, nextProjectId, nextEndpointId, form>>

PostProject ==
    \E u \in Users, body \in ProjectBodies : \E r \in RoutePostProject(u, body, now) :
        /\ r.status = 201 => nextProjectId <= MaxProjects
        /\ Serve("POST /api/projects", u, 0, body, r)
        /\ nextProjectId' = IF r.status = 201 THEN nextProjectId + 1 ELSE nextProjectId
        /\ UNCHANGED <<gen, reqs, canvas, env, db, app, now, users, nextEndpointId, form>>

PutProject ==
    \E u \in Users, id \in RequestProjectIds, body \in ProjectBodies :
      \E r \in RoutePutProject(u, id, body, now) :
        /\ Serve("PUT /api/projects/:id", u, id, body, r)
        /\ UNCHANGED <<gen, reqs, canvas, env, db, app, now, users, nextProjectId, nextEndpointId, form>>

DeleteProject ==
    \E u \in Users, id \in RequestProjectIds : \E r \in RouteDeleteProject(u, id) :
        /\ Serve("DELETE /api/projects/:id", u, id, NoBody, r)
        /\ UNCHANGED <<gen, reqs, canvas, env, db, app, now, users, nextProjectId, nextEndpointId, form>>

GetEndpoints ==
    \E u \in Users, id \in RequestProjectIds : \E r \in RouteGetEndpoints(u, id) :
        /\ Serve("GET /api/projects/:projectId/endpoints", u, id, NoBody, r)
        /\ UNCHANGED <<gen, reqs, canvas, env, db, app, now, users, nextProjectId, nextEndpointId, form>>

PostEndpointUpTo(cap) ==
    \E u \in Users, id \in RequestProjectIds, body \in EndpointBodies :
      \E r \in RoutePostEndpoint(u, id, body, now) :
        /\ r.status = 201 => nextEndpointId <= cap
        /\ Serve("POST /api/projects/:projectId/endpoints", u, id, body, r)
        /\ nextEndpointId' = IF r.status = 201 THEN nextEndpointId + 1 ELSE nextEndpointId
        /\ UNCHANGED <<gen, reqs, canvas, env, db, app, now, users, nextProjectId, form>>

\* storage.upsertUser as the login callback calls it
UpsertUser ==
    \E userData \in UserDatas :
        /\ serverUp
        /\ IF dbThrows
           THEN /\ users' = users
                /\ last' = [kind |-> "upsertUser", user |-> userData.id, id |-> 0,
                            body |-> userData, status |-> -1, message |-> "TypeError",
                            result |-> <<>>, ops |-> <<"upsertUser">>,
                            preProjects |-> projects, preEndpoints |-> endpoints,
                            preUsers |-> users, time |-> now]
           ELSE LET u == upsertUser(users, userData, now)
                IN /\ users' = u.rows
                   /\ last' = [kind |-> "upsertUser", user |-> userData.id, id |-> 0,
                               body |-> userData, status |-> 0, message |-> "",
                               result |-> <<CHOOSE r \in u.returned : TRUE>>,
                               ops |-> <<"upsertUser">>,
                               preProjects |-> projects, preEndpoints |-> endpoints,
                               preUsers |-> users, time |-> now]
        /\ UNCHANGED <<gen, reqs, canvas, env, db, app, now, projects, endpoints, nextProjectId, nextEndpointId, form>>

GetAuthUser ==
    \E u \in Users : \E r \in RouteGetAuthUser(u) :
        /\ Serve("GET /api/auth/user", u, 0, NoBody, r)
        /\ UNCHANGED <<gen, reqs, canvas, env, db, app, now, users, nextProjectId, nextEndpointId, form>>

PostEndpoint == PostEndpointUpTo(MaxEndpoints)

Next ==
    \/ Tick
    \/ GetProjects
    \/ GetProject
    \/ PostProject
    \/ PutProject
    \/ DeleteProject
    \/ GetEndpoints
    \/ PostEndpoint

Spec == Init /\ [][Next]_vars

\* ------------------------------------- client: BuildFromPromptForm
\* String.prototype.trim on a sequence of characters
RECURSIVE trimStart(_)
trimStart(s) == IF s # <<>> /\ Head(s) = " " THEN trimStart(Tail(s)) ELSE s

RECURSIVE trimEnd(_)
trimEnd(s) == IF s # <<>> /\ s[Len(s)] = " " THEN trimEnd(SubSeq(s, 1, Len(s) - 1)) ELSE s

trim(s) == trimEnd(trimStart(s))

\* onChange of the textarea, or a click on a suggestion
SetPrompt ==
    \E p \in Prompts :
        /\ serverUp
        /\ p # form.prompt
        /\ form' = [form EXCEPT !.prompt = p]
        /\ UNCHANGED <<gen, reqs, canvas, env, db, app, now, users, projects, endpoints, nextProjectId,
                       nextEndpointId, last>>

\* handleSubmit: a blank prompt is refused with a toast, any other starts the
\* mutation, whose request is then in flight
SubmitPrompt ==
    /\ serverUp
    /\ form.status # "pending"
    /\ IF trim(form.prompt) = <<>>
       THEN form' = [form EXCEPT !.toast = "Missing Prompt"]
       ELSE form' = [form EXCEPT !.status = "pending", !.sent = form.prompt]
    /\ UNCHANGED <<gen, reqs, canvas, env, db, app, now, users, projects, endpoints, nextProjectId,
                   nextEndpointId, last>>

\* The request POST /api/ai/build-from-prompt reaches the server and the
\* mutation settles.  A request no registered route matches falls through
\* registerRoutes: what answers it (a 404, or the page of the client as 200)
\* is not a JSON body of a created project, and the mutation fails either way.
SettlePrompt ==
    \E fallthrough \in {404, 200} :
        LET name == "POST /api/ai/build-from-prompt"
            hit == dispatch(name)
        IN /\ serverUp
           /\ form.status = "pending"
           /\ last' = [kind |-> name, user |-> "", id |-> 0, body |-> [prompt |-> form.sent],
                       status |-> IF hit = {} THEN fallthrough ELSE 200,
                       message |-> "", result |-> <<>>,
                       ops |-> <<>>,
                       preProjects |-> projects, preEndpoints |-> endpoints]
           /\ IF hit = {}
              THEN form' = [form EXCEPT !.status = "error", !.toast = "Generation Failed"]
              ELSE form' = [form EXCEPT !.status = "success", !.toast = "Project Created!",
                                        !.prompt = <<>>, !.invalidated = TRUE]
           /\ UNCHANGED <<gen, reqs, canvas, env, db, app, now, users, projects, endpoints, nextProjectId,
                          nextEndpointId>>

NextAi ==
    \/ SetPrompt
    \/ SubmitPrompt
    \/ SettlePrompt

AiSpec == Init /\ [][NextAi]_vars

\* --------------------------------------------------------- server/gemini.ts
Texts == {"x", "y"}

\* What one ai.models.generateContent call comes to: it rejects, or it resolves
\* to a response whose text may be empty.
GenOutcomes == {[threw |-> TRUE, text |-> ""]} \cup [threw : {FALSE}, text : Texts \cup {""}]

\* The outcomes the API has in store for the successive calls of one request.
Answers == [1..MaxAnswers -> GenOutcomes]

\* The module throws while loading when GEMINI_API_KEY is not set.
geminiModuleThrows == ~env.geminiApiKey

\* a || b on strings
orElse(a, b) == IF a = "" THEN b ELSE a

\* generateReactComponent calling generateContent again after a failure
generateReactComponentRetry(os) ==
    LET response == IF os[1].threw THEN os[2] ELSE os[1]
        calls == IF os[1].threw THEN 2 ELSE 1
    IN IF response.threw
       THEN [threw |-> "Failed to generate component with AI", value |-> "", calls |-> calls]
       ELSE [threw |-> "", value |-> orElse(response.text, "// Error generating component"),
             calls |-> calls]

\* generateReactComponent: what it throws or returns, and the number of
\* generateContent calls it made.
generateReactComponent(os) ==
    LET response == os[1]
    IN IF response.threw
       THEN [threw |-> "Failed to generate component with AI", value |-> "", calls |-> 1]
       ELSE [threw |-> "", value |-> orElse(response.text, "// Error generating component"),
             calls |-> 1]

\* The fields of the object buildFromPrompt returns, and their defaults.
SiteFields == {"title", "description", "components", "htmlCode", "cssCode", "jsCode"}

SiteDefault ==
    [title |-> "Generated Website", description |-> "Generated using AI",
     components |-> "[]",
     htmlCode |-> "<!DOCTYPE html><html><head><title>Generated Site</title></head><body><h1>Generated Content</h1></body></html>",
     cssCode |-> "/* Generated styles */", jsCode |-> "// Generated JavaScript"]

\* A value of a JSON object's field that || passes over: "", 0, false, null.
Falsy == "<falsy>"

\* The JSON objects a response text may spell: each field is absent, falsy or
\* has a value (for components an array, written as its JSON text).
SiteObjects ==
    [title : {Absent, Falsy, "T"}, description : {Absent, "D"},
     components : {Absent, Falsy, "[c]"}, htmlCode : {Absent, "<p>"},
     cssCode : {Absent, "p{}"}, jsCode : {Absent, Falsy, "f()"}]

NoFields == [f \in SiteFields |-> Absent]

\* response.text of the buildFromPrompt call: empty, text that is not JSON,
\* the JSON null, a JSON number, or a JSON object.
SiteTexts ==
    [json : {"empty", "invalid", "null", "number"}, fields : {NoFields}]
        \cup [json : {"object"}, fields : SiteObjects]

SiteOutcomes == {[threw |-> TRUE, text |-> [json |-> "empty", fields |-> NoFields]]}
                    \cup [threw : {FALSE}, text : SiteTexts]

\* response.text || '{}'
textOrEmptyObject(text) ==
    IF text.json = "empty" THEN [json |-> "object", fields |-> NoFields] ELSE text

\* JSON.parse: a SyntaxError for text that is not JSON, else the value spelt.
JSONparse(text) ==
    IF text.json = "invalid" THEN [threw |-> TRUE, kind |-> "", fields |-> NoFields]
    ELSE [threw |-> FALSE, kind |-> text.json, fields |-> text.fields]

\* result.f || d: reading a property of null is a TypeError, of a number
\* undefined.
fieldOr(fields, f, d) == IF fields[f] \in {Absent, Falsy} THEN d ELSE fields[f]

\* buildFromPrompt returning the parsed fields as they are
buildFromPromptNoDefaults(o) ==
    LET parsed == JSONparse(textOrEmptyObject(o.text))
    IN IF o.threw \/ parsed.threw \/ parsed.kind = "null"
       THEN [threw |-> "Failed to generate website from prompt", value |-> <<>>, calls |-> 1]
       ELSE [threw |-> "", value |-> <<parsed.fields>>, calls |-> 1]

\* buildFromPrompt: what it throws or returns.
buildFromPrompt(o) ==
    LET parsed == JSONparse(textOrEmptyObject(o.text))
    IN IF o.threw \/ parsed.threw \/ parsed.kind = "null"
       THEN [threw |-> "Failed to generate website from prompt", value |-> <<>>, calls |-> 1]
       ELSE [threw |-> "",
             value |-> <<[f \in SiteFields |-> fieldOr(parsed.fields, f, SiteDefault[f])]>>,
             calls |-> 1]

\* The code handed to optimizeCode.
Codes == {"", "src"}

\* optimizeCode rethrowing as the other facade functions do
optimizeCodeRethrow(code, o) ==
    IF o.threw THEN [threw |-> "Failed to optimize code with AI", value |-> <<>>, calls |-> 1]
    ELSE [threw |-> "", value |-> <<orElse(o.text, code)>>, calls |-> 1]

\* optimizeCode: the text of the response, the code itself when the call
\* failed or the text is empty.
optimizeCode(code, o) ==
    IF o.threw THEN [threw |-> "", value |-> <<code>>, calls |-> 1]
    ELSE [threw |-> "", value |-> <<orElse(o.text, code)>>, calls |-> 1]

\* A generateContent call that has not settled yet.
Pending == [threw |-> FALSE, text |-> "<pending>"]

AllPending == <<Pending, Pending, Pending>>

\* Promise.all over the three calls: rejected as soon as one has rejected,
\* fulfilled once all have fulfilled.
promiseAll(settled) ==
    IF \E i \in DOMAIN settled : settled[i].threw THEN "rejected"
    ELSE IF \E i \in DOMAIN settled : settled[i] = Pending THEN "pending"
    ELSE "fulfilled"

\* what generateBackendCode returns from the three responses
backendCode(settled) ==
    [routes |-> orElse(settled[1].text, "// Error generating routes"),
     models |-> orElse(settled[2].text, "// Error generating models"),
     middleware |-> orElse(settled[3].text, "// Error generating middleware")]

\* generateBackendCode waiting for every call and putting the placeholder in
\* the place of a call that failed
generateBackendCodeAllSettled(settled) ==
    IF \E i \in DOMAIN settled : settled[i] = Pending
    THEN [state |-> "pending", threw |-> "", value |-> <<>>]
    ELSE [state |-> "done", threw |-> "", value |-> <<backendCode(settled)>>]

\* generateBackendCode, given what its three calls (routes, models,
\* middleware) have come to so far.
generateBackendCode(settled) ==
    LET all == promiseAll(settled)
    IN IF all = "pending" THEN [state |-> "pending", threw |-> "", value |-> <<>>]
       ELSE IF all = "rejected"
       THEN [state |-> "done", threw |-> "Failed to generate backend code with AI",
             value |-> <<>>]
       ELSE [state |-> "done", threw |-> "", value |-> <<backendCode(settled)>>]

\* ------------------------------------------------- server/routes.ts: AI routes
\* !v for a field of req.body
falsy(v) == v \in {Absent, ""}

ComponentBodies ==
    [componentType : {Absent, "", "button"}, framework : {Absent, "", "react"},
     stylePreferences : {Absent, "", "dark"}]

\* What an AI handler did: the response, the error the facade threw ("" when
\* none) and the generateContent calls made.
AiResp(status, message, result, thrown, calls) ==
    [status |-> status, message |-> message, result |-> result, thrown |-> thrown,
     ops |-> [i \in 1..calls |-> "generateContent"]]

\* POST /api/ai/generate-component
RouteGenerateComponent(body, os) ==
    IF falsy(body.componentType) \/ falsy(body.framework) \/ falsy(body.stylePreferences)
    THEN AiResp(400, "Missing required fields: componentType, framework, stylePreferences",
                <<>>, "", 0)
    ELSE IF geminiModuleThrows
    THEN AiResp(500, "Failed to generate component. Please check your API key and try again.",
                <<>>, "GEMINI_API_KEY environment variable is required", 0)
    ELSE LET g == generateReactComponent(os)
         IN IF g.threw # ""
            THEN AiResp(500, "Failed to generate component. Please check your API key and try again.",
                        <<>>, g.threw, g.calls)
            ELSE AiResp(200, "", <<[code |-> g.value, componentType |-> body.componentType,
                                   framework |-> body.framework]>>, "", g.calls)

\* An AI request or facade call handled: the tables are not touched.
ServeAi(kind, body, os, r) ==
    /\ last' = [kind |-> kind, user |-> "", id |-> 0, body |-> body,
                status |-> r.status, message |-> r.message, result |-> r.result,
                ops |-> r.ops, preProjects |-> projects, preEndpoints |-> endpoints,
                thrown |-> r.thrown, answers |-> os]
    /\ UNCHANGED <<gen, reqs, canvas, env, db, app, now, users, projects, endpoints,
                   nextProjectId, nextEndpointId, form>>

PostGenerateComponent ==
    \E body \in ComponentBodies, os \in Answers :
        /\ serverUp
        /\ dispatch("POST /api/ai/generate-component") # {}
        /\ ServeAi("POST /api/ai/generate-component", body, os,
                   RouteGenerateComponent(body, os))

\* A call of the exported buildFromPrompt, which needs the module loaded.
BuildFromPrompt ==
    \E o \in SiteOutcomes :
        LET b == buildFromPrompt(o)
        IN /\ ~geminiModuleThrows
           /\ ServeAi("buildFromPrompt", [userPrompt |-> "p"], o,
                      AiResp(0, "", b.value, b.threw, b.calls))

\* A call of the exported optimizeCode.
OptimizeCode ==
    \E code \in Codes, type \in {"component", "backend"}, o \in GenOutcomes :
        LET c == optimizeCode(code, o)
        IN /\ ~geminiModuleThrows
           /\ ServeAi("optimizeCode", [code |-> code, type |-> type], o,
                      AiResp(0, "", c.value, c.threw, c.calls))

BackendBodies ==
    [database : {Absent, "", "postgres"}, framework : {Absent, "express"},
     features : {Absent, "auth"}]

BackendMessage == "Failed to generate backend code. Please check your API key and try again."

\* The response of POST /api/ai/generate-backend once generateBackendCode
\* has returned or thrown.
BackendResp(body, g) ==
    IF g.threw # "" THEN AiResp(500, BackendMessage, <<>>, g.threw, 3)
    ELSE AiResp(200, "", <<[routes |-> g.value[1].routes, models |-> g.value[1].models,
                           middleware |-> g.value[1].middleware,
                           database |-> body.database, framework |-> body.framework]>>,
                "", 3)

LastAi(kind, body, os, order, r) ==
    [kind |-> kind, user |-> "", id |-> 0, body |-> body,
     status |-> r.status, message |-> r.message, result |-> r.result,
     ops |-> r.ops, preProjects |-> projects, preEndpoints |-> endpoints,
     thrown |-> r.thrown, answers |-> os, order |-> order]

\* POST /api/ai/generate-backend up to its await of generateBackendCode: the
\* three generateContent calls are issued and the handler is suspended.
PostGenerateBackend ==
    \E body \in BackendBodies :
        LET kind == "POST /api/ai/generate-backend"
        IN /\ serverUp
           /\ dispatch(kind) # {}
           /\ \A i \in DOMAIN gen.settled : gen.settled[i] # Pending
           /\ IF falsy(body.database) \/ falsy(body.framework) \/ falsy(body.features)
              THEN /\ gen' = GenIdle
                   /\ last' = LastAi(kind, body, <<>>, <<>>,
                          AiResp(400, "Missing required fields: database, framework, features",
                                 <<>>, "", 0))
              ELSE IF geminiModuleThrows
              THEN /\ gen' = GenIdle
                   /\ last' = LastAi(kind, body, <<>>, <<>>,
                          AiResp(500, BackendMessage, <<>>,
                                 "GEMINI_API_KEY environment variable is required", 0))
              ELSE /\ gen' = [body |-> body, settled |-> AllPending, order |-> <<>>,
                              responded |-> FALSE]
                   /\ last' = LastAi(kind, body, AllPending, <<>>, AiResp(0, "", <<>>, "", 3))
           /\ UNCHANGED <<reqs, canvas, env, db, app, now, users, projects, endpoints,
                          nextProjectId, nextEndpointId, form>>

\* One of the three generateContent calls settles; when that settles the
\* Promise.all, generateBackendCode returns or throws and the handler
\* responds.  Calls still pending after a rejection settle unobserved.
GenerateContentSettles ==
    \E i \in 1..3, o \in GenOutcomes :
        /\ i \in DOMAIN gen.settled
        /\ gen.settled[i] = Pending
        /\ LET settled == [gen.settled EXCEPT ![i] = o]
               order == Append(gen.order, i)
               g == generateBackendCode(settled)
               responds == ~gen.responded /\ g.state = "done"
           IN /\ gen' = [gen EXCEPT !.settled = settled, !.order = order,
                                    !.responded = gen.responded \/ responds]
              /\ last' = IF responds
                         THEN LastAi("POST /api/ai/generate-backend", gen.body, settled, order,
                                     BackendResp(gen.body, g))
                         ELSE last
        /\ UNCHANGED <<reqs, canvas, env, db, app, now, users, projects, endpoints,
                       nextProjectId, nextEndpointId, form>>

NextBackend ==
    \/ PostGenerateBackend
    \/ GenerateContentSettles

BackendSpec == AiInit /\ [][NextBackend]_vars

NextFacade ==
    \/ PostGenerateComponent
    \/ BuildFromPrompt
    \/ OptimizeCode

FacadeSpec == AiInit /\ [][NextFacade]_vars

\* ------------------------------------------------- client: the canvas
HandleComponentDrop ==
    \E component \in Palette, x \in Positions, y \in Positions :
        /\ Len(canvas.nodes) < MaxNodes
        /\ canvas' = handleComponentDrop(canvas, component, now, x, y)
        /\ UNCHANGED <<gen, reqs, env, db, app, now, users, projects, endpoints,
                       nextProjectId, nextEndpointId, last, form>>

OnConnect ==
    \E i, j \in DOMAIN canvas.nodes :
        /\ Cardinality(canvas.edges) < MaxEdges
        /\ canvas' = onConnect(canvas, canvas.nodes[i].id, canvas.nodes[j].id)
        /\ UNCHANGED <<gen, reqs, env, db, app, now, users, projects, endpoints,
                       nextProjectId, nextEndpointId, last, form>>

OnNodesChange ==
    \E i \in DOMAIN canvas.nodes :
        /\ canvas' = removeNode(canvas, i)
        /\ UNCHANGED <<gen, reqs, env, db, app, now, users, projects, endpoints,
                       nextProjectId, nextEndpointId, last, form>>

NextCanvas ==
    \/ Tick
    \/ HandleComponentDrop
    \/ OnConnect
    \/ OnNodesChange

CanvasSpec == Init /\ [][NextCanvas]_vars

\* ------------------------------- handlers interleaved at their first await
\* The three writing project-scoped handlers await storage.getProject before
\* they test and write; other handlers run while one is suspended there.
ConcurrentKinds ==
    {"PUT /api/projects/:id", "DELETE /api/projects/:id",
     "POST /api/projects/:projectId/endpoints"}

ConcurrentBodies(kind) ==
    IF kind = "PUT /api/projects/:id"
    THEN [title : {"t2", Invalid}, userId : {Absent}]
    ELSE IF kind = "DELETE /api/projects/:id" THEN {NoBody}
    ELSE [path : Paths \cup {Absent}, projectId : {0}]

\* The owner of a stored project sends a request for it, and the handler runs
\* up to `await storage.getProject(...)`: the lookup is made on the table as
\* it is now and the handler is suspended with its result.
BeginRequest ==
    \E kind \in ConcurrentKinds, u \in Users, id \in RequestProjectIds :
      \E body \in ConcurrentBodies(kind) :
        /\ serverUp
        /\ ~dbThrows
        /\ \E p \in projects : p.id = id /\ p.userId = u
        /\ dispatch(kind) # {}
        /\ Cardinality(reqs) < MaxInFlight
        /\ reqs' = reqs \cup {[kind |-> kind, user |-> u, id |-> id, body |-> body,
                                project |-> getProject(projects, id)]}
        /\ UNCHANGED <<gen, canvas, env, db, app, now, users, projects, endpoints,
                       nextProjectId, nextEndpointId, last, form>>

\* what a suspended handler does when it is resumed
AfterLookup(q) ==
    IF q.kind = "PUT /api/projects/:id"
    THEN PutProjectAfterLookup(q.project, q.user, q.id, q.body, now)
    ELSE IF q.kind = "DELETE /api/projects/:id"
    THEN DeleteProjectAfterLookup(q.project, q.user, q.id)
    ELSE PostEndpointAfterLookup(q.project, q.user, q.id, q.body, now)

\* A suspended handler is resumed and runs to its response.
ResumeRequest ==
    \E q \in reqs : \E r \in AfterLookup(q) :
        /\ r.status = 201 => nextEndpointId <= MaxEndpoints
        /\ Serve(q.kind, q.user, q.id, q.body, r)
        /\ reqs' = reqs \ {q}
        /\ nextEndpointId' = IF r.status = 201 THEN nextEndpointId + 1 ELSE nextEndpointId
        /\ UNCHANGED <<gen, canvas, env, db, app, now, users, nextProjectId, form>>

NextConcurrent ==
    \/ PostProject
    \/ BeginRequest
    \/ ResumeRequest

ConcurrentSpec == Init /\ [][NextConcurrent]_vars

\* ------------------------------- server/routes.ts: the handlers, by statement
\* A response sent: res.status(status).json({message}) or res.json(...).
Sent(status, message) == [status |-> status, message |-> message]

\* What one statement of a handler's try block does: the responses it sends,
\* whether it is a storage or AI call, and how control leaves it: on to the
\* next statement, out of the handler, or into the catch block with a
\* ZodError or with another error.
Statement(send, exit, call) == [send |-> send, exit |-> exit, call |-> call]

Skip == Statement(<<>>, "next", 0)

\* if (cond) { res.status(status).json({message}) } with the return left out
ReturnIfFallsThrough(cond, status, message) ==
    IF cond THEN Statement(<<Sent(status, message)>>, "next", 0) ELSE Skip

\* if (cond) { return res.status(status).json({message}) }
ReturnIf(cond, status, message) ==
    IF cond THEN Statement(<<Sent(status, message)>>, "return", 0) ELSE Skip

\* res.status(status).json(...) as a statement of its own
Respond(status) == Statement(<<Sent(status, "")>>, "next", 0)

\* await storage.f(...), await import("./gemini"), await generate...(...)
Await(throws) == Statement(<<>>, IF throws THEN "throw" ELSE "next", 1)

\* schema.parse(...)
Parse(fails) == Statement(<<>>, IF fails THEN "zod" ELSE "next", 0)

\* if (project.userId !== userId) return 403: reading a property of
\* undefined is a TypeError
OwnerTest(project, userId) ==
    IF project = {} THEN Statement(<<>>, "throw", 0)
    ELSE ReturnIf((CHOOSE p \in project : TRUE).userId # userId, 403, "Access denied")

\* The try block run from its first statement: the responses sent, the calls
\* awaited, and what was thrown.
RECURSIVE runTry(_, _, _)
runTry(statements, sent, calls) ==
    IF statements = <<>> THEN [sent |-> sent, calls |-> calls, threw |-> "none"]
    ELSE LET st == Head(statements)
             out == sent \o st.send
             n == calls + st.call
         IN IF st.exit = "next" THEN runTry(Tail(statements), out, n)
            ELSE IF st.exit = "return" THEN [sent |-> out, calls |-> n, threw |-> "none"]
            ELSE [sent |-> out, calls |-> n, threw |-> st.exit]

\* The 500 message of each route's catch block.
ErrorMessage(kind) ==
    CASE kind = "GET /api/auth/user" -> "Failed to fetch user"
      [] kind = "GET /api/projects" -> "Failed to fetch projects"
      [] kind = "GET /api/projects/:id" -> "Failed to fetch project"
      [] kind = "POST /api/projects" -> "Failed to create project"
      [] kind = "PUT /api/projects/:id" -> "Failed to update project"
      [] kind = "DELETE /api/projects/:id" -> "Failed to delete project"
      [] kind = "GET /api/projects/:projectId/endpoints" -> "Failed to fetch endpoints"
      [] kind = "POST /api/projects/:projectId/endpoints" -> "Failed to create endpoint"
      [] kind = "POST /api/ai/generate-component"
           -> "Failed to generate component. Please check your API key and try again."
      [] kind = "POST /api/ai/generate-backend" -> BackendMessage

\* The 400 message of the catch blocks that test for a ZodError.
ZodMessage(kind) ==
    IF kind = "POST /api/projects/:projectId/endpoints" THEN "Invalid endpoint data"
    ELSE "Invalid project data"

\* try { statements } catch (error) { ZodError: return 400; else 500 }
handler(kind, statements) ==
    LET run == runTry(statements, <<>>, 0)
        caught == IF run.threw = "zod" THEN <<Sent(400, ZodMessage(kind))>>
                  ELSE IF run.threw = "throw" THEN <<Sent(500, ErrorMessage(kind))>>
                  ELSE <<>>
    IN [sent |-> run.sent \o caught, calls |-> run.calls, threw |-> run.threw]

\* Storage calls that fail although the database is there: the first, the
\* second call of a handler.
Faults == [first : BOOLEAN, second : BOOLEAN]

NoFault == [first |-> FALSE, second |-> FALSE]

storageThrows(fault) == dbThrows \/ fault

\* the row the lookup gives, when it gives one
looked(id) == IF dbThrows THEN {} ELSE getProject(projects, id)

StatementsGetAuthUser(f) == <<Await(storageThrows(f.first)), Respond(200)>>

StatementsGetProjects(f) == <<Await(storageThrows(f.first)), Respond(200)>>

StatementsGetProject(userId, id, f) ==
    <<Await(storageThrows(f.first)),
      ReturnIf(looked(id) = {}, 404, "Project not found"),
      OwnerTest(looked(id), userId),
      Respond(200)>>

StatementsPostProject(userId, body, f) ==
    <<Parse(insertProjectSchemaFails(withUserId(body, userId))),
      Await(storageThrows(f.first)),
      Respond(201)>>

StatementsPutProject(userId, id, body, f) ==
    <<Await(storageThrows(f.first)),
      ReturnIf(looked(id) = {}, 404, "Project not found"),
      OwnerTest(looked(id), userId),
      Parse(insertProjectSchemaPartialFails(body)),
      Await(storageThrows(f.second)),
      Respond(200)>>

StatementsDeleteProject(userId, id, f) ==
    <<Await(storageThrows(f.first)),
      ReturnIf(looked(id) = {}, 404, "Project not found"),
      OwnerTest(looked(id), userId),
      Await(storageThrows(f.second)),
      Respond(204)>>

StatementsGetEndpoints(userId, projectId, f) ==
    <<Await(storageThrows(f.first)),
      ReturnIf(looked(projectId) = {}, 404, "Project not found"),
      OwnerTest(looked(projectId), userId),
      Await(storageThrows(f.second)),
      Respond(200)>>

StatementsPostEndpoint(userId, projectId, body, f) ==
    <<Await(storageThrows(f.first)),
      ReturnIf(looked(projectId) = {}, 404, "Project not found"),
      OwnerTest(looked(projectId), userId),
      Parse(insertApiEndpointSchemaFails(withProjectId(body, projectId))),
      Await(storageThrows(f.second)),
      Respond(201)>>

StatementsGenerateComponent(body, os) ==
    <<ReturnIf(falsy(body.componentType) \/ falsy(body.framework)
                 \/ falsy(body.stylePreferences),
               400, "Missing required fields: componentType, framework, stylePreferences"),
      Await(geminiModuleThrows),
      Await(generateReactComponent(os).threw # ""),
      Respond(200)>>

StatementsGenerateBackend(body, settled) ==
    <<ReturnIf(falsy(body.database) \/ falsy(body.framework) \/ falsy(body.features),
               400, "Missing required fields: database, framework, features"),
      Await(geminiModuleThrows),
      Await(generateBackendCode(settled).threw # ""),
      Respond(200)>>

\* The API giving the same outcome to every call of a request.
SameAnswers == {os \in Answers : \A i \in DOMAIN os : os[i] = os[1]}

\* A call that rejects and a call that resolves to a text.
FewOutcomes == {o \in GenOutcomes : o.text \in {"", "x"} /\ (o.threw \/ o.text = "x")}

\* POST /api/ai/generate-backend once its three calls have settled
RouteGenerateBackend(body, settled) ==
    IF falsy(body.database) \/ falsy(body.framework) \/ falsy(body.features)
    THEN AiResp(400, "Missing required fields: database, framework, features", <<>>, "", 0)
    ELSE IF geminiModuleThrows
    THEN AiResp(500, BackendMessage, <<>>,
                "GEMINI_API_KEY environment variable is required", 0)
    ELSE BackendResp(body, generateBackendCode(settled))

\* A request handled statement by statement: h is what the handler sent and
\* threw, r what the route does as a whole when no call fails by itself.  The
\* tables change as r says when nothing was thrown, and not at all otherwise.
Answer(kind, f, h, r) ==
    /\ serverUp
    /\ dispatch(kind) # {}
    /\ last' = [kind |-> kind, sent |-> h.sent, threw |-> h.threw, calls |-> h.calls,
                faults |-> f, routeStatus |-> r.status, routeMessage |-> r.message]
    /\ UNCHANGED <<gen, reqs, canvas, env, db, app, now, users, form>>

\* the tables after a handler that only reads or only calls the AI
Reads == UNCHANGED <<projects, endpoints, nextProjectId, nextEndpointId>>

\* the tables after a handler that writes what r says unless it threw
Writes(h, r) ==
    /\ projects' = IF h.threw = "none" THEN r.projects ELSE projects
    /\ endpoints' = IF h.threw = "none" THEN r.endpoints ELSE endpoints

AnswerGetAuthUser ==
    \E u \in Users, f \in Faults : \E r \in RouteGetAuthUser(u) :
        /\ Answer("GET /api/auth/user", f, handler("GET /api/auth/user",
                   StatementsGetAuthUser(f)), r)
        /\ Reads

AnswerGetProjects ==
    \E u \in Users, f \in Faults : \E r \in RouteGetProjects(u) :
        /\ Answer("GET /api/projects", f, handler("GET /api/projects",
                   StatementsGetProjects(f)), r)
        /\ Reads

AnswerGetProject ==
    \E u \in Users, id \in RequestProjectIds, f \in Faults :
      \E r \in RouteGetProject(u, id) :
        /\ Answer("GET /api/projects/:id", f, handler("GET /api/projects/:id",
                   StatementsGetProject(u, id, f)), r)
        /\ Reads

AnswerPostProject ==
    \E u \in Users, body \in ConcurrentBodies("PUT /api/projects/:id"), f \in Faults :
      \E r \in RoutePostProject(u, body, now) :
        LET h == handler("POST /api/projects", StatementsPostProject(u, body, f))
            created == r.status = 201 /\ h.threw = "none"
        IN /\ created => nextProjectId <= MaxProjects
           /\ Answer("POST /api/projects", f, h, r)
           /\ Writes(h, r)
           /\ nextProjectId' = IF created THEN nextProjectId + 1 ELSE nextProjectId
           /\ UNCHANGED nextEndpointId

AnswerPutProject ==
    \E u \in Users, id \in RequestProjectIds, f \in Faults :
     \E body \in ConcurrentBodies("PUT /api/projects/:id") :
      \E r \in RoutePutProject(u, id, body, now) :
        LET h == handler("PUT /api/projects/:id", StatementsPutProject(u, id, body, f))
        IN /\ Answer("PUT /api/projects/:id", f, h, r)
           /\ Writes(h, r)
           /\ UNCHANGED <<nextProjectId, nextEndpointId>>

AnswerDeleteProject ==
    \E u \in Users, id \in RequestProjectIds, f \in Faults :
      \E r \in RouteDeleteProject(u, id) :
        LET h == handler("DELETE /api/projects/:id", StatementsDeleteProject(u, id, f))
        IN /\ Answer("DELETE /api/projects/:id", f, h, r)
           /\ Writes(h, r)
           /\ UNCHANGED <<nextProjectId, nextEndpointId>>

AnswerGetEndpoints ==
    \E u \in Users, id \in RequestProjectIds, f \in Faults :
      \E r \in RouteGetEndpoints(u, id) :
        /\ Answer("GET /api/projects/:projectId/endpoints", f,
                  handler("GET /api/projects/:projectId/endpoints",
                          StatementsGetEndpoints(u, id, f)), r)
        /\ Reads

AnswerPostEndpoint ==
    \E u \in Users, id \in RequestProjectIds, f \in Faults :
     \E body \in ConcurrentBodies("POST /api/projects/:projectId/endpoints") :
      \E r \in RoutePostEndpoint(u, id, body, now) :
        LET h == handler("POST /api/projects/:projectId/endpoints",
                         StatementsPostEndpoint(u, id, body, f))
            created == r.status = 201 /\ h.threw = "none"
        IN /\ created => nextEndpointId <= MaxEndpoints
           /\ Answer("POST /api/projects/:projectId/endpoints", f, h, r)
           /\ Writes(h, r)
           /\ nextEndpointId' = IF created THEN nextEndpointId + 1 ELSE nextEndpointId
           /\ UNCHANGED nextProjectId

AnswerGenerateComponent ==
    \E body \in ComponentBodies, os \in SameAnswers :
        /\ Answer("POST /api/ai/generate-component", NoFault,
                  handler("POST /api/ai/generate-component",
                          StatementsGenerateComponent(body, os)),
                  RouteGenerateComponent(body, os))
        /\ Reads

AnswerGenerateBackend ==
    \E body \in BackendBodies, settled \in [1..3 -> FewOutcomes] :
        /\ Answer("POST /api/ai/generate-backend", NoFault,
                  handler("POST /api/ai/generate-backend",
                          StatementsGenerateBackend(body, settled)),
                  RouteGenerateBackend(body, settled))
        /\ Reads

NextResponses ==
    \/ AnswerGetAuthUser
    \/ AnswerGetProjects
    \/ AnswerGetProject
    \/ AnswerPostProject
    \/ AnswerPutProject
    \/ AnswerDeleteProject
    \/ AnswerGetEndpoints
    \/ AnswerPostEndpoint
    \/ AnswerGenerateComponent
    \/ AnswerGenerateBackend

ResponseSpec == AiInit /\ [][NextResponses]_vars

\* the users table and the routes over it
NextUsers ==
    \/ Tick
    \/ UpsertUser
    \/ GetAuthUser

UserSpec == Init /\ [][NextUsers]_vars

\* the endpoint routes of a project, with room for several endpoints
PostEndpoints == PostEndpointUpTo(MaxListedEndpoints)

NextEndpoints ==
    \/ Tick
    \/ PostProject
    \/ DeleteProject
    \/ GetEndpoints
    \/ PostEndpoints

EndpointSpec == Init /\ [][NextEndpoints]_vars

\* ------------------------------------------------------------------ claims
ProjectScoped ==
    {"GET /api/projects/:id", "PUT /api/projects/:id", "DELETE /api/projects/:id",
     "GET /api/projects/:projectId/endpoints", "POST /api/projects/:projectId/endpoints"}

\* the project the last request named, as it was stored when the request came
preProject == {p \in last.preProjects : p.id = last.id}

TablesUntouched == projects = last.preProjects /\ endpoints = last.preEndpoints

\* the last request passed the 404/403 guard of its handler
PassedGuard == \E p \in preProject : p.userId = last.user

\* C1: on every project-scoped route, a request for an existing project of
\* another user is answered 403 "Access denied", returns no row, and the only
\* storage call made is the lookup: nothing is read further, updated, deleted
\* or created.
C1_ForeignProjectDenied ==
    (last.kind \in ProjectScoped /\ \E p \in preProject : p.userId # last.user)
        => /\ last.status = 403
           /\ last.message = "Access denied"
           /\ last.result = <<>>
           /\ last.ops = <<"getProject">>
           /\ TablesUntouched

C1_Witness ==
    /\ last.kind = "POST /api/projects/:projectId/endpoints"
    /\ last.status = 403
    /\ ~insertApiEndpointSchemaFails(withProjectId(last.body, last.id))
    /\ \E p \in projects : p.id = last.id /\ p.userId # last.user

\* C2: a body that fails schema parsing in POST /api/projects, PUT
\* /api/projects/:id or POST /api/projects/:projectId/endpoints is answered 400
\* with the route's validation message, and the stored projects and endpoints
\* are what they were before the request.
C2_InvalidBodyRejected ==
    /\ (last.kind = "POST /api/projects"
          /\ insertProjectSchemaFails(withUserId(last.body, last.user)))
        => (last.status = 400 /\ last.message = "Invalid project data" /\ TablesUntouched)
    /\ (last.kind = "PUT /api/projects/:id" /\ PassedGuard
          /\ insertProjectSchemaPartialFails(last.body))
        => (last.status = 400 /\ last.message = "Invalid project data" /\ TablesUntouched)
    /\ (last.kind = "POST /api/projects/:projectId/endpoints" /\ PassedGuard
          /\ insertApiEndpointSchemaFails(withProjectId(last.body, last.id)))
        => (last.status = 400 /\ last.message = "Invalid endpoint data" /\ TablesUntouched)

C2_Witness ==
    /\ last.kind = "PUT /api/projects/:id"
    /\ last.status = 400
    /\ last.body.title = Invalid
    /\ PassedGuard

\* C3 as stated: a DELETE /api/projects/:id repeated right after the first
\* leaves the stored state as the first left it and is answered as the first
\* was.
C3_DeleteTwiceSameResult ==
    last.kind = "DELETE /api/projects/:id"
        => \A r2 \in RouteDeleteProject(last.user, last.id) :
              /\ r2.projects = projects
              /\ r2.endpoints = endpoints
              /\ r2.status = last.status

\* C3 amended: the repeated DELETE leaves the stored state as the first left
\* it; it is answered as the first was unless the first deleted the project
\* (204), and then it is answered 404.  storage.deleteProject and
\* storage.deleteApiEndpoint applied twice leave the table as applied once.
C3_DeleteIdempotentOnState ==
    /\ last.kind = "DELETE /api/projects/:id"
        => \A r2 \in RouteDeleteProject(last.user, last.id) :
              /\ r2.projects = projects
              /\ r2.endpoints = endpoints
              /\ r2.status = IF last.status = 204 THEN 404 ELSE last.status
    /\ \A id \in ProjectIds :
          deleteProject(deleteProject(projects, id), id) = deleteProject(projects, id)
    /\ \A id \in EndpointIds :
          deleteApiEndpoint(deleteApiEndpoint(endpoints, id), id)
            = deleteApiEndpoint(endpoints, id)

C3_Witness ==
    /\ last.kind = "DELETE /api/projects/:id"
    /\ last.status = 204
    /\ projects # {}
    /\ projects # last.preProjects

\* every column of a projects / api_endpoints row but updatedAt
StripProjectStamp(rows) == {[id |-> r.id, userId |-> r.userId, title |-> r.title] : r \in rows}

StripEndpointStamp(rows) ==
    {[id |-> r.id, projectId |-> r.projectId, path |-> r.path, createdAt |-> r.createdAt] :
        r \in rows}

\* C4 as stated: a PUT /api/projects/:id repeated with the same body leaves the
\* stored record as the first PUT left it, updatedAt included.
C4_UpdateTwiceIdentical ==
    (last.kind = "PUT /api/projects/:id" /\ last.status = 200)
        => \A r2 \in RoutePutProject(last.user, last.id, last.body, now) :
              getProject(r2.projects, last.id) = getProject(projects, last.id)

\* C4 amended: the repeated update leaves every column but updatedAt as the
\* first left it, and an update that reaches storage sets updatedAt to the
\* time it is applied; so for storage.updateProject and
\* storage.updateApiEndpoint applied twice with the same updates.
C4_UpdateIdempotentButStamp ==
    /\ (last.kind = "PUT /api/projects/:id" /\ last.status = 200)
        => \A r2 \in RoutePutProject(last.user, last.id, last.body, now) :
              /\ StripProjectStamp(r2.projects) = StripProjectStamp(projects)
              /\ {p \in r2.projects : p.id # last.id} = {p \in projects : p.id # last.id}
              /\ r2.endpoints = endpoints
              /\ r2.status = 200 => \A p \in getProject(r2.projects, last.id) : p.updatedAt = now
    /\ \A id \in ProjectIds, u \in ProjectBodies, t2 \in now..MaxClock :
          LET once == updateProject(projects, id, u, now).rows
              twice == updateProject(once, id, u, t2).rows
          IN /\ StripProjectStamp(twice) = StripProjectStamp(once)
             /\ \A p \in getProject(twice, id) : p.updatedAt = t2
    /\ \A id \in EndpointIds, u \in EndpointBodies, t2 \in now..MaxClock :
          LET once == updateApiEndpoint(endpoints, id, u, now).rows
              twice == updateApiEndpoint(once, id, u, t2).rows
          IN /\ StripEndpointStamp(twice) = StripEndpointStamp(once)
             /\ \A e \in {r \in twice : r.id = id} : e.updatedAt = t2

C4_Witness ==
    /\ last.kind = "PUT /api/projects/:id"
    /\ last.status = 200
    /\ last.body.title \in Titles
    /\ \E p \in projects : p.id = last.id /\ p.updatedAt < now /\ p.title = last.body.title
    /\ \E p \in last.preProjects : p.id = last.id /\ p.title # last.body.title

\* C6: the project POST /api/projects stores is owned by the session user,
\* whatever userId the body carries: one row is added, its userId is the
\* caller's, and it is the row returned.
C6_CreatedProjectOwnedByCaller ==
    (last.kind = "POST /api/projects" /\ last.status = 201)
        => /\ Cardinality(projects \ last.preProjects) = 1
           /\ last.preProjects \subseteq projects
           /\ \A p \in projects \ last.preProjects :
                 p.userId = last.user /\ last.result = <<p>>

C6_Witness ==
    /\ last.kind = "POST /api/projects"
    /\ last.status = 201
    /\ last.user = "u1"
    /\ last.body.userId = "u2"

\* C9 as stated: without DATABASE_URL and outside production the routes are
\* served from mock storage and none answers 500; without DATABASE_URL in
\* production loading server/db.ts throws "DATABASE_URL must be set".
C9_DevelopmentServesWithoutDatabase ==
    /\ (~env.databaseUrl /\ env.nodeEnv # "production" /\ last.kind # "none")
        => last.status # 500
    /\ (~env.databaseUrl /\ env.nodeEnv = "production")
        => (dbModule(env).threw = "DATABASE_URL must be set" /\ last.kind = "none")

\* C5 as stated: every create, read, update and delete method of IStorage for
\* projects and for API endpoints is called by the handler of a registered
\* route.
C5_EveryCrudMethodRouted ==
    serverUp =>
        \A entity \in DOMAIN IStorageCrud : \A verb \in DOMAIN IStorageCrud[entity] :
            \E r \in app : IStorageCrud[entity][verb] \cap r.calls # {}

\* C10: GET /api/projects answers with exactly the stored projects of the
\* session user, each once, ordered by updatedAt descending.
C10_ListIsOwnProjectsNewestFirst ==
    (last.kind = "GET /api/projects" /\ last.status = 200)
        => /\ {last.result[i] : i \in DOMAIN last.result}
                = {p \in projects : p.userId = last.user}
           /\ Len(last.result) = Cardinality({p \in projects : p.userId = last.user})
           /\ \A i, j \in DOMAIN last.result :
                 i < j => last.result[i].updatedAt >= last.result[j].updatedAt

C10_Witness ==
    /\ last.kind = "GET /api/projects"
    /\ last.status = 200
    /\ Len(last.result) = 2
    /\ last.result[1].updatedAt > last.result[2].updatedAt
    /\ last.result[1].id < last.result[2].id

\* C7: upsertUser keeps one users row per id.  A call with an id the table
\* holds overwrites the supplied fields of that row and sets updatedAt to the
\* time of the call, adding no row and leaving createdAt and the other rows
\* alone; getUser(id) then returns the row the call returned.
C7_UpsertOneRowPerId ==
    /\ \A r1, r2 \in users : r1.id = r2.id => r1 = r2
    /\ (last.kind = "upsertUser" /\ last.status = 0)
        => LET id == last.body.id
               got == getUser(users, id)
               old == getUser(last.preUsers, id)
           IN /\ Cardinality(got) = 1
              /\ \A g \in got :
                    /\ last.body.email # Absent => g.email = last.body.email
                    /\ g.updatedAt = last.time
                    /\ last.result = <<g>>
                    /\ \A o \in old :
                          /\ g.createdAt = o.createdAt
                          /\ last.body.email = Absent => g.email = o.email
              /\ old # {} => Cardinality(users) = Cardinality(last.preUsers)
              /\ {r \in users : r.id # id} = {r \in last.preUsers : r.id # id}

C7_Witness ==
    /\ last.kind = "upsertUser"
    /\ last.status = 0
    /\ last.body.email \in Emails
    /\ \E o \in last.preUsers :
          o.id = last.body.id /\ o.email # last.body.email /\ o.updatedAt < last.time
    /\ Cardinality(users) = 2

\* C8 as stated: once the form has submitted a non-empty prompt and the
\* mutation has settled, the request was handled by a registered route that
\* called the AI facade and a project was created; the mutation succeeded, the
\* /api/projects query was invalidated.
C8_PromptBuildsProject ==
    (last.kind = "POST /api/ai/build-from-prompt" /\ form.status \in {"success", "error"})
        => /\ \E r \in dispatch(last.kind) : "buildFromPrompt" \in r.calls
           /\ form.status = "success"
           /\ form.invalidated

\* C11: on every project-scoped route, when the lookup finds no project with
\* the id of the path, the answer is 404 "Project not found", the lookup is the
\* only storage call and no table changes; a 403 is only ever given for a
\* project that exists (the existence test comes before the ownership test).
C11_MissingProjectNotFound ==
    (last.kind \in ProjectScoped /\ ~dbThrows)
        => /\ preProject = {} => /\ last.status = 404
                                 /\ last.message = "Project not found"
                                 /\ last.result = <<>>
                                 /\ last.ops = <<"getProject">>
                                 /\ TablesUntouched
           /\ last.status = 403 => preProject # {}

C11_Witness ==
    /\ last.kind = "PUT /api/projects/:id"
    /\ last.status = 404
    /\ ~insertProjectSchemaPartialFails(last.body)
    /\ preProject = {}
    /\ \E p \in projects : p.userId = last.user

\* C12: an endpoint created through POST /api/projects/:projectId/endpoints
\* is stored with the projectId of the path whatever the body carries, and it
\* is the only row added; GET /api/projects/:projectId/endpoints returns each
\* endpoint of that project once, no other endpoint, newest createdAt first.
C12_EndpointsBelongToPathProject ==
    /\ (last.kind = "POST /api/projects/:projectId/endpoints" /\ last.status = 201)
         => /\ Len(last.result) = 1
            /\ last.result[1].projectId = last.id
            /\ last.result[1].path = last.body.path
            /\ last.result[1] \notin last.preEndpoints
            /\ endpoints = last.preEndpoints \cup {last.result[1]}
    /\ (last.kind = "GET /api/projects/:projectId/endpoints" /\ last.status = 200)
         => /\ {last.result[i] : i \in DOMAIN last.result}
                  = {e \in endpoints : e.projectId = last.id}
            /\ \A i, j \in DOMAIN last.result :
                  /\ i # j => last.result[i] # last.result[j]
                  /\ i < j => last.result[i].createdAt >= last.result[j].createdAt

C12_Witness ==
    /\ last.kind = "GET /api/projects/:projectId/endpoints"
    /\ last.status = 200
    /\ Len(last.result) = 2
    /\ last.result[1].createdAt > last.result[2].createdAt
    /\ \E e \in endpoints : e.projectId # last.id

\* C18 as stated: no step changes the userId of a stored project, so a
\* project stays with the user who created it; a PUT whose body carries a
\* userId does not hand the project to that user.
C18_OwnerNeverChanges ==
    [][\A p \in projects : \A q \in projects' : q.id = p.id => q.userId = p.userId]_vars

\* C19 as stated: every stored endpoint refers to a stored project, also
\* after a project that has endpoints was deleted.
C19_EndpointsReferToProjects ==
    \A e \in endpoints : \E p \in projects : p.id = e.projectId

\* C13: one POST /api/ai/generate-component makes at most one generateContent
\* call.  With a required field missing or empty the answer is 400 and no call
\* is made; when the one call fails, generateReactComponent throws "Failed to
\* generate component with AI" and the route answers 500 with no second call;
\* when it succeeds the answer is 200 with the text of that call.
C13_GenerateComponentCallsOnce ==
    last.kind = "POST /api/ai/generate-component"
        => LET missing == \/ falsy(last.body.componentType)
                          \/ falsy(last.body.framework)
                          \/ falsy(last.body.stylePreferences)
           IN /\ Len(last.ops) <= 1
              /\ missing => last.status = 400 /\ last.ops = <<>>
              /\ (~missing /\ ~geminiModuleThrows /\ last.answers[1].threw)
                    => /\ last.thrown = "Failed to generate component with AI"
                       /\ last.status = 500
                       /\ last.result = <<>>
                       /\ last.ops = <<"generateContent">>
              /\ (~missing /\ ~geminiModuleThrows /\ ~last.answers[1].threw)
                    => /\ last.status = 200
                       /\ last.ops = <<"generateContent">>
                       /\ last.result[1].code
                            = orElse(last.answers[1].text, "// Error generating component")

C13_Witness ==
    /\ last.kind = "POST /api/ai/generate-component"
    /\ last.status = 500
    /\ last.ops = <<"generateContent">>
    /\ last.answers[1].threw
    /\ ~last.answers[2].threw

\* C14: buildFromPrompt either throws "Failed to generate website from
\* prompt" and returns nothing (the call failed, or the text could not be
\* parsed into something with properties), or returns an object with exactly
\* the six fields, each the parsed value when the JSON has one and its fixed
\* default when the JSON lacks it or the response text is empty.
C14_BuildFromPromptAllFieldsOrThrow ==
    last.kind = "buildFromPrompt"
        => LET text == last.answers.text
               unparsed == last.answers.threw \/ text.json \in {"invalid", "null"}
           IN /\ unparsed => /\ last.thrown = "Failed to generate website from prompt"
                             /\ last.result = <<>>
              /\ ~unparsed
                   => /\ last.thrown = ""
                      /\ Len(last.result) = 1
                      /\ DOMAIN last.result[1] = SiteFields
                      /\ \A f \in SiteFields :
                            last.result[1][f] =
                                IF text.json = "object" /\ text.fields[f] \notin {Absent, Falsy}
                                THEN text.fields[f] ELSE SiteDefault[f]
              /\ text.json = "empty" /\ ~last.answers.threw
                   => last.result = <<SiteDefault>>

C14_Witness ==
    /\ last.kind = "buildFromPrompt"
    /\ last.answers.text.json = "object"
    /\ last.answers.text.fields.title = "T"
    /\ last.answers.text.fields.jsCode = Absent
    /\ last.result[1].title = "T"
    /\ last.result[1].jsCode = "// Generated JavaScript"

\* C16: optimizeCode never throws: it returns the code it was given when the
\* AI call fails or gives an empty text, and the text of the response
\* otherwise.
C16_OptimizeCodeNeverFails ==
    last.kind = "optimizeCode"
        => /\ last.thrown = ""
           /\ last.result =
                <<IF last.answers.threw \/ last.answers.text = ""
                  THEN last.body.code ELSE last.answers.text>>

C16_Witness ==
    /\ last.kind = "optimizeCode"
    /\ last.answers.threw
    /\ last.body.code = "src"
    /\ last.result = <<"src">>

\* C15: POST /api/ai/generate-backend with its fields present answers only
\* once the Promise.all over the three generateContent calls has settled.  It
\* answers 200 only when all three calls succeeded, in whatever order they
\* completed, with routes, models and middleware each the text of its own
\* response or its placeholder comment when that text is empty.  As soon as
\* one call has failed, generateBackendCode throws "Failed to generate backend
\* code with AI", the answer is 500 and carries no part of a result.
C15_BackendCodeAllOrNothing ==
    (last.kind = "POST /api/ai/generate-backend" /\ last.answers # <<>>)
        => LET failed == \E i \in 1..3 : gen.settled[i].threw
               done == \A i \in 1..3 : gen.settled[i] # Pending
           IN /\ gen.body = last.body
              /\ failed => /\ last.status = 500
                           /\ last.message = BackendMessage
                           /\ last.thrown = "Failed to generate backend code with AI"
                           /\ last.result = <<>>
              /\ (~failed /\ ~done) => last.status = 0 /\ last.result = <<>>
              /\ (~failed /\ done)
                    => /\ last.status = 200
                       /\ last.thrown = ""
                       /\ last.result[1].routes
                            = orElse(gen.settled[1].text, "// Error generating routes")
                       /\ last.result[1].models
                            = orElse(gen.settled[2].text, "// Error generating models")
                       /\ last.result[1].middleware
                            = orElse(gen.settled[3].text, "// Error generating middleware")

C15_Witness ==
    /\ last.kind = "POST /api/ai/generate-backend"
    /\ last.status = 200
    /\ last.order = <<3, 1, 2>>
    /\ last.result[1].routes = "x"
    /\ last.result[1].models = "// Error generating models"
    /\ last.result[1].middleware = "y"

C20_WritesSeeTheirProject ==
    /\ (last.kind = "PUT /api/projects/:id" /\ last.status = 200)
         => /\ Len(last.result) = 1
            /\ \E p \in last.preProjects : p.id = last.id
    /\ (last.kind = "POST /api/projects/:projectId/endpoints" /\ last.status = 201)
         => /\ Len(last.result) = 1
            /\ \E p \in last.preProjects : p.id = last.id

\* C22 as stated: the ids of the nodes on the canvas are pairwise distinct
\* after any sequence of drops, also of one component at one Date.now().
C22_NodeIdsDistinct ==
    \A i, j \in DOMAIN canvas.nodes : i # j => canvas.nodes[i].id # canvas.nodes[j].id

\* C21: every request that reaches a registered handler is answered exactly
\* once, whichever branch it takes; when a storage or AI call throws, at the
\* first or at a later await, that one answer is the 500 with the message of
\* the route; and with no call failing by itself the one answer is the status
\* and message the route gives as a whole.
C21_ExactlyOneResponse ==
    last.kind \in {r.name : r \in registeredRoutes}
        => /\ Len(last.sent) = 1
           /\ last.threw = "throw" => last.sent = <<Sent(500, ErrorMessage(last.kind))>>
           /\ last.threw = "zod" => last.sent = <<Sent(400, ZodMessage(last.kind))>>
           /\ last.faults = NoFault
                => last.sent = <<Sent(last.routeStatus, last.routeMessage)>>

C21_Witness ==
    /\ last.kind = "PUT /api/projects/:id"
    /\ ~dbThrows
    /\ last.faults = [first |-> FALSE, second |-> TRUE]
    /\ last.calls = 2
    /\ last.threw = "throw"
    /\ last.sent = <<Sent(500, "Failed to update project")>>

====
